---------------------------- MODULE Spec2Model ----------------------------
(***************************************************************************)
(* Model of the voice assistant in src/chatbot.py (class ChatBot) and of   *)
(* src/weather_adapter.py (class WeatherAdapter).                          *)
(*                                                                         *)
(* Two specifications share the variables below.                           *)
(*                                                                         *)
(*   SpecMain  the program as started by the script entry point            *)
(*             (chatbot.py:315-317): ChatBot("Jarvis") is constructed,     *)
(*             one dictionary entry of lines 47-53 per step.               *)
(*                                                                         *)
(*             The constructor is left by an exception at line 51, so no   *)
(*             behaviour of SpecMain reaches run().                        *)
(*                                                                         *)
(*   Spec      the public methods of a ChatBot instance and of its         *)
(*             WeatherAdapter, called one at a time by a single-threaded   *)
(*             caller: the five intent actions, speech_to_text,            *)
(*             handle_conversation, text_to_speech,                        *)
(*             WeatherAdapter.get_weather, and run(), whose loop is        *)
(*             modelled statement by statement.  The instance holds the    *)
(*             attributes lines 40-55 assign (a caller gets one only with  *)
(*             the failing calls of lines 51, 52 and 55 replaced); the     *)
(*             methods are modelled as written.                            *)
(*                                                                         *)
(* External collaborators (speech recognition, speech synthesis, sentence  *)
(* embedding, entity recognition, HTTP) are modelled by their outcomes:    *)
(* small tables for the deterministic ones, nondeterministic choice for    *)
(* the others.                                                             *)
(***************************************************************************)
EXTENDS Integers, Sequences, FiniteSets, TLC

VARIABLES
    name,            \* self.name
    text,            \* self.text
    exit_flag,       \* self.exit_flag
    expected_inputs, \* self.expected_inputs: sequence of [key, value] in insertion order
    weather,         \* self.weather: "unset" or "adapter"
    pc,              \* position of the caller / of run() / of the constructor
    response,        \* value returned by the last call (a one-element sequence) or <<>>
    raised,          \* exception that ended the last call, "none" if it returned
    raisedIn,        \* method in which that exception was raised
    lastOp,          \* method the caller invoked last
    flagBefore,      \* exit_flag when that call started
    invoked,         \* intent actions whose body ran since construction / loop entry
    embedCalls,      \* calls of similarity_model.encode
    engineCalls,     \* calls of the dialogue pipeline
    requests,        \* places sent to the weather data source, in order
    http,            \* outcome of the last HTTP request
    ttsFault,        \* fault injected into the last text_to_speech call
    listened,        \* calls of speech_to_text made by run()
    spoken,          \* calls of text_to_speech made by run()
    calls,           \* method calls made by the caller so far
    building         \* entries of the dictionary literal evaluated so far (constructor)

vars == <<name, text, exit_flag, expected_inputs, weather, pc, response, raised,
          raisedIn, lastOp, flagBefore, invoked, embedCalls, engineCalls, requests,
          http, ttsFault, listened, spoken, calls, building>>

-----------------------------------------------------------------------------
(* Bounds of the model *)

MaxCalls == 2   \* method calls the caller makes
MaxIter  == 2   \* iterations of the run loop
MaxClock == 5   \* instants at which the wall clock is read

(* Program constants *)

Threshold  == 70     \* 0.7, in hundredths
InitialMax == -1     \* initial running maximum

SENTINEL == "ERROR"
REPROMPT == "Sorry, come again?"

\* Keys of the dictionary literal, in source order.  The last key is a plain
\* string literal, not an f-string, so the braces stay in it.
Phrases == << "Current Weather in the city",
              "What is the time?",
              "Thank you",
              "Close Down",
              "Wake Up {self.name}" >>

Farewells == { "Cheerio", "Ta-ta", "Pip-Pip", "Take care, old chap",
               "Until next time", "Ok, off you pop" }

ThankYous == { "You're welcome!", "Anytime!", "No problem!", "Cheers!",
               "All good!", "No worries!", "Don't mention it!", "It's nothing!",
               "My pleasure!", "Happy to help!" }

NO_CITY   == "I say, old chap, one must specify a city to inquire about the weather."
APOLOGY   == "My apologies, but I regret to inform you that I was unable to procure the weather information for your request."

WeatherReport(city, w) ==
    "Ah, in " \o city \o ", one observes the weather to be " \o w
              \o ". Quite intriguing, wouldn't you agree?"

Greeting(n) ==
    "Hello I am " \o n \o " your AI assistant. Please ask for one thing at a time, I'm not all that smart. What can I do for you?"

Names == { "Jarvis" }

\* None is <<>>, a string s is <<s>>.
None == <<>>
Some(s) == <<s>>


-----------------------------------------------------------------------------
(* Collaborators *)

\* What the recogniser can hand back (recognize_google, line 81).
Utterances == { "thank you",
                "close down",
                "tomorrow's weather in Paris and London",
                "what is the weather",
                "tell me a joke",
                "thanks, now shut down",
                "time" }

\* Cosine similarity, in hundredths, of an utterance with each key of the
\* table, in table order (encode, line 273; pytorch_cos_sim, line 276).
\* The embedding model is deterministic, so this is a table.
Scores(t) ==
    CASE t = "thank you"                              -> << 5, 10, 98, 12,  8>>
      [] t = "close down"                             -> << 3,  6, 20, 97, 30>>
      [] t = "tomorrow's weather in Paris and London" -> <<88, 20,  5,  4,  6>>
      [] t = "what is the weather"                    -> <<85, 30,  5,  4,  6>>
      [] t = "tell me a joke"                         -> <<10, 40, 22, 15, 31>>
      [] t = "thanks, now shut down"                  -> <<10, 10, 80, 80, 10>>
      [] t = "time"                                   -> <<20, 70, 10, 10, 10>>
      [] OTHER                                        -> << 0,  0,  0,  0,  0>>

\* Entities the recogniser of line 227 finds, in text order.
Ents(t) ==
    CASE t = "tomorrow's weather in Paris and London" ->
              << [text |-> "tomorrow", label_ |-> "DATE"],
                 [text |-> "Paris",    label_ |-> "GPE"],
                 [text |-> "London",   label_ |-> "GPE"] >>
      [] t = "time" -> << [text |-> "time", label_ |-> "ORG"] >>
      [] OTHER -> << >>

\* Outcomes of requests.get(api_url) (line 50) and of response.json().
\* connected = FALSE is a transport failure: requests.get raises.
Descriptions == { "light rain", "clear sky" }

Entry(d) == [hasDescription |-> TRUE, description |-> d]
NoDescription == [hasDescription |-> FALSE, description |-> ""]

Reply(st, js, hw, w) ==
    [connected |-> TRUE, status |-> st, json |-> js, hasWeather |-> hw, weather |-> w]

HttpOutcomes ==
    { [connected |-> FALSE, status |-> 0, json |-> FALSE, hasWeather |-> FALSE,
       weather |-> << >>] }
    \cup { Reply(200, TRUE, TRUE, <<Entry(d)>>) : d \in Descriptions }
    \cup { Reply(200, TRUE, TRUE, <<Entry("light rain"), Entry("clear sky")>>) }
    \cup { Reply(200, FALSE, FALSE, << >>),          \* body is not JSON
           Reply(200, TRUE, FALSE, << >>),           \* no "weather" key
           Reply(200, TRUE, TRUE, << >>),            \* empty "weather" array
           Reply(200, TRUE, TRUE, <<NoDescription>>) }
    \cup { Reply(st, TRUE, TRUE, <<Entry("light rain")>>) : st \in {401, 404} }
    \cup { Reply(st, FALSE, FALSE, << >>) : st \in {404, 500} }

NoHttp == [connected |-> FALSE, status |-> -1, json |-> FALSE, hasWeather |-> FALSE,
           weather |-> << >>]

\* Faults of one text_to_speech call.
TtsFaults == { "none", "tempfile", "synthesis", "remove" }

\* datetime.now().strftime('%H:%M') at the c-th sampled instant.
Digits == <<"0", "1", "2", "3", "4", "5", "6", "7", "8", "9">>
TwoDigits(n) == Digits[(n \div 10) + 1] \o Digits[(n % 10) + 1]
MinuteOfDay(c) == (c * 397) % 1440
FormatTime(c) ==
    TwoDigits(MinuteOfDay(c) \div 60) \o ":" \o TwoDigits(MinuteOfDay(c) % 60)

-----------------------------------------------------------------------------
(* Methods.  Each is an action on the instance, the result of the call and *)
(* the collaborators' logs; the callers below add their own bookkeeping.   *)

instance == <<name, text, exit_flag, expected_inputs, weather>>
logs     == <<invoked, embedCalls, engineCalls, requests, http, ttsFault>>

Returns(v)   == response' = Some(v) /\ raised' = "none" /\ raisedIn' = "none"
Raises(e, m) == response' = None /\ raised' = e /\ raisedIn' = m
\* A method without a return statement that runs to its end.
Completes    == raised' = "none" /\ raisedIn' = "none" /\ UNCHANGED response

\* ChatBot.wake_up(self, text)
wake_up(t) ==
    /\ Returns(Greeting(name))
    /\ invoked' = invoked \cup {"wake_up"}
    /\ UNCHANGED <<instance, embedCalls, engineCalls, requests, http, ttsFault>>

\* sleep without the assignment of line 174 (C2 fails for it).
sleep_without_flag(t) ==
    /\ \E f \in Farewells : Returns(f)
    /\ invoked' = invoked \cup {"sleep"}
    /\ UNCHANGED <<instance, embedCalls, engineCalls, requests, http, ttsFault>>

\* ChatBot.sleep(self, text)
sleep(t) ==
    /\ exit_flag' = TRUE
    /\ \E f \in Farewells : Returns(f)
    /\ invoked' = invoked \cup {"sleep"}
    /\ UNCHANGED <<name, text, expected_inputs, weather,
                   embedCalls, engineCalls, requests, http, ttsFault>>

\* ChatBot.thank_you(self)
thank_you ==
    /\ \E s \in ThankYous : Returns(s)
    /\ invoked' = invoked \cup {"thank_you"}
    /\ UNCHANGED <<instance, embedCalls, engineCalls, requests, http, ttsFault>>

\* ChatBot.get_time(self)
get_time ==
    /\ \E c \in 0..MaxClock : Returns(FormatTime(c))
    /\ invoked' = invoked \cup {"get_time"}
    /\ UNCHANGED <<instance, embedCalls, engineCalls, requests, http, ttsFault>>

\* The adapter without the status test of line 51 (C6 fails for it).
AdapterResult_without_status_test(h) ==
    IF ~h.connected THEN [raised |-> "ConnectionError", value |-> None]
    ELSE IF ~h.json THEN [raised |-> "JSONDecodeError", value |-> None]
    ELSE IF ~h.hasWeather THEN [raised |-> "KeyError", value |-> None]
    ELSE IF Len(h.weather) = 0 THEN [raised |-> "IndexError", value |-> None]
    ELSE IF ~h.weather[1].hasDescription THEN [raised |-> "KeyError", value |-> None]
    ELSE [raised |-> "none", value |-> Some(h.weather[1].description)]

\* WeatherAdapter.get_weather(self, city_name), given the outcome h of the
\* request: what the call raises ("none" if it returns) and what it returns.
AdapterResult(h) ==
    IF ~h.connected THEN [raised |-> "ConnectionError", value |-> None]    \* line 50
    ELSE IF h.status = 200 THEN
        IF ~h.json THEN [raised |-> "JSONDecodeError", value |-> None]     \* line 52
        ELSE IF ~h.hasWeather THEN [raised |-> "KeyError", value |-> None] \* line 53
        ELSE IF Len(h.weather) = 0 THEN [raised |-> "IndexError", value |-> None]
        ELSE IF ~h.weather[1].hasDescription
             THEN [raised |-> "KeyError", value |-> None]
        ELSE [raised |-> "none", value |-> Some(h.weather[1].description)] \* line 54
    ELSE [raised |-> "none", value |-> None]                               \* lines 56-57

\* The loop of lines 229-233 without its break: the last entity labelled
\* GPE (C8 fails for it).
LastGPE(ents) ==
    LET gpe == { i \in 1..Len(ents) : ents[i].label_ = "GPE" }
    IN  IF gpe = {} THEN None
        ELSE Some(ents[CHOOSE i \in gpe : \A j \in gpe : i >= j].text)

\* The loop of lines 229-233: the text of the first entity labelled GPE.
FirstGPE(ents) ==
    LET gpe == { i \in 1..Len(ents) : ents[i].label_ = "GPE" }
    IN  IF gpe = {} THEN None
        ELSE Some(ents[CHOOSE i \in gpe : \A j \in gpe : i <= j].text)

\* ChatBot.get_weather(self)
get_weather ==
    LET city == FirstGPE(Ents(text)) IN
    /\ invoked' = invoked \cup {"get_weather"}
    /\ UNCHANGED <<instance, embedCalls, engineCalls, ttsFault>>
    /\ IF city = None
       THEN /\ Returns(NO_CITY)
            /\ UNCHANGED <<requests, http>>
       ELSE IF weather = << >>
       THEN /\ Raises("AttributeError", "get_weather")
            /\ UNCHANGED <<requests, http>>
       ELSE \E h \in HttpOutcomes :
            /\ requests' = Append(requests, city[1])
            /\ http' = h
            /\ LET r == AdapterResult(h) IN
               IF r.raised # "none" THEN Raises(r.raised, "WeatherAdapter.get_weather")
               ELSE IF r.value # None
                    THEN Returns(WeatherReport(city[1], r.value[1]))
                    ELSE Returns(APOLOGY)

\* ChatBot.speech_to_text(self): every exception of the recogniser is caught
\* and turned into the sentinel.
speech_to_text ==
    /\ \E heard \in Utterances \cup {SENTINEL} : text' = heard
    /\ Completes
    /\ UNCHANGED <<name, exit_flag, expected_inputs, weather, logs>>

\* ChatBot.text_to_speech(self, text).  When NamedTemporaryFile itself fails,
\* the handler of line 128 catches the error, but fp was never bound and the
\* finally clause reads fp.name: UnboundLocalError is not an OSError and
\* leaves the method.
text_to_speech(t) ==
    /\ \E f \in TtsFaults :
         /\ ttsFault' = f
         /\ IF f = "tempfile"
            THEN /\ raised' = "UnboundLocalError"
                 /\ raisedIn' = "text_to_speech"
                 /\ UNCHANGED response
            ELSE Completes
    /\ UNCHANGED <<instance, invoked, embedCalls, engineCalls, requests, http>>

\* handle_conversation without the test of lines 267-268 (C3 fails for it).
handle_conversation_without_sentinel_test ==
    /\ embedCalls' = embedCalls + 1
    /\ Raises("IndexError", "handle_conversation")
    /\ UNCHANGED <<instance, invoked, engineCalls, requests, http, ttsFault>>

\* ChatBot.handle_conversation(self).  For a text other than the sentinel the
\* texts are encoded in one call (line 273); the loop variable of line 275 is
\* then a row of the embedding tensor, not a position, and the first pass of
\* line 276 indexes the tensor (and line 278 the list) with it: IndexError.
\* Lines 277-285 are never reached.
handle_conversation ==
    IF text = SENTINEL
    THEN /\ Returns(REPROMPT)
         /\ UNCHANGED <<instance, logs>>
    ELSE /\ embedCalls' = embedCalls + 1
         /\ Raises("IndexError", "handle_conversation")
         /\ UNCHANGED <<instance, invoked, engineCalls, requests, http, ttsFault>>

\* WeatherAdapter.get_weather(self, city_name), called on the adapter.
adapter_get_weather(city) ==
    \E h \in HttpOutcomes :
        /\ requests' = Append(requests, city)
        /\ http' = h
        /\ LET r == AdapterResult(h) IN
           IF r.raised # "none" THEN Raises(r.raised, "WeatherAdapter.get_weather")
           ELSE response' = r.value /\ raised' = "none" /\ raisedIn' = "none"
        /\ UNCHANGED <<instance, invoked, embedCalls, engineCalls, ttsFault>>

-----------------------------------------------------------------------------
(* SpecMain: the script entry point, chatbot = ChatBot("Jarvis").          *)

harness == <<lastOp, flagBefore, listened, spoken, calls>>

Blank ==
    /\ response = None /\ raised = "none" /\ raisedIn = "none"
    /\ lastOp = "none" /\ flagBefore = FALSE
    /\ invoked = {} /\ embedCalls = 0 /\ engineCalls = 0
    /\ requests = << >> /\ http = NoHttp /\ ttsFault = "none"
    /\ listened = 0 /\ spoken = 0 /\ calls = 0
    /\ building = << >>

InitMain ==
    /\ name = "" /\ text = "" /\ exit_flag = FALSE
    /\ expected_inputs = << >> /\ weather = << >>
    /\ pc = "main"
    /\ Blank

\* Lines 39-46.
ConstructBegin ==
    /\ pc = "main"
    /\ \E n \in Names : name' = n
    /\ text' = ""
    /\ exit_flag' = FALSE
    /\ pc' = "line48"
    /\ UNCHANGED <<expected_inputs, weather, response, raised, raisedIn, logs,
                   harness, building>>

\* Line 48: the value of the first entry is the result of calling get_weather now.
ConstructWeatherEntry ==
    /\ pc = "line48"
    /\ get_weather
    /\ building' = Append(building, [key |-> Phrases[1], value |-> response'])
    /\ pc' = IF raised' = "none" THEN "line49" ELSE "failed"
    /\ UNCHANGED harness

\* Line 49.
ConstructTimeEntry ==
    /\ pc = "line49"
    /\ get_time
    /\ building' = Append(building, [key |-> Phrases[2], value |-> response'])
    /\ pc' = "line50"
    /\ UNCHANGED harness

\* Line 50.
ConstructThanksEntry ==
    /\ pc = "line50"
    /\ thank_you
    /\ building' = Append(building, [key |-> Phrases[3], value |-> response'])
    /\ pc' = "line51"
    /\ UNCHANGED harness

\* Line 51: sleep is declared sleep(self, text) and is called without text.
\* The call raises TypeError before the body runs; the constructor is left,
\* and lines 52-55 (the assignment of the table, of exit_flag and of weather)
\* are not executed.
ConstructSleepEntry ==
    /\ pc = "line51"
    /\ Raises("TypeError", "__init__")
    /\ pc' = "failed"
    /\ UNCHANGED <<instance, logs, harness, building>>

NextMain ==
    \/ ConstructBegin
    \/ ConstructWeatherEntry
    \/ ConstructTimeEntry
    \/ ConstructThanksEntry
    \/ ConstructSleepEntry

SpecMain == InitMain /\ [][NextMain]_vars

-----------------------------------------------------------------------------
(* Spec: the methods of an instance, called by a single-threaded caller.   *)

\* What the dictionary literal of lines 47-53 holds: for each key the value
\* its call returned when the literal was evaluated (self.text is "" then).
StoredTable(c, th, fw, n) ==
    << [key |-> Phrases[1], value |-> Some(NO_CITY)],
       [key |-> Phrases[2], value |-> Some(FormatTime(c))],
       [key |-> Phrases[3], value |-> Some(th)],
       [key |-> Phrases[4], value |-> Some(fw)],
       [key |-> Phrases[5], value |-> Some(Greeting(n))] >>

\* A sample of the values lines 50 and 51 can store.
StoredThanks    == { "You're welcome!", "Anytime!" }
StoredFarewells == { "Cheerio", "Ta-ta" }

Init ==
    /\ name \in Names
    /\ text = ""
    /\ exit_flag = FALSE
    /\ \E th \in StoredThanks, fw \in StoredFarewells :
           expected_inputs = StoredTable(0, th, fw, name)
    /\ weather = << [api_key |-> "secret"] >>
    /\ pc = "idle"
    /\ Blank

\* The caller invokes one method and waits for it.
Call(op) ==
    /\ pc = "idle"
    /\ calls < MaxCalls
    /\ calls' = calls + 1
    /\ lastOp' = op
    /\ flagBefore' = exit_flag
    /\ UNCHANGED <<pc, listened, spoken, building>>

CallWakeUp        == Call("wake_up") /\ wake_up(text)
CallSleep         == Call("sleep") /\ sleep(text)
CallThankYou      == Call("thank_you") /\ thank_you
CallGetTime       == Call("get_time") /\ get_time
CallGetWeather    == Call("get_weather") /\ get_weather
CallSpeechToText  == Call("speech_to_text") /\ speech_to_text
CallHandleConversation == Call("handle_conversation") /\ handle_conversation
CallTextToSpeech  == Call("text_to_speech") /\ \E t \in {REPROMPT, APOLOGY} : text_to_speech(t)
CallAdapter       == Call("WeatherAdapter.get_weather")
                     /\ \E city \in {"Paris", "Atlantis"} : adapter_get_weather(city)

\* run(), line 307 and the first test of line 308.
RunEnter ==
    /\ pc = "idle"
    /\ calls < MaxCalls
    /\ calls' = calls + 1
    /\ lastOp' = "run"
    /\ flagBefore' = exit_flag
    /\ exit_flag' = FALSE
    /\ invoked' = {}
    /\ listened' = 0
    /\ spoken' = 0
    /\ pc' = "listen"
    /\ raised' = "none" /\ raisedIn' = "none" /\ response' = None
    /\ UNCHANGED <<name, text, expected_inputs, weather, embedCalls, engineCalls,
                   requests, http, ttsFault, building>>

\* Line 309.
RunListen ==
    /\ pc = "listen"
    /\ listened < MaxIter
    /\ speech_to_text
    /\ listened' = listened + 1
    /\ pc' = "dispatch"
    /\ UNCHANGED <<lastOp, flagBefore, spoken, calls, building>>

\* Line 310.  An exception of handle_conversation is not caught in run.
RunDispatch ==
    /\ pc = "dispatch"
    /\ handle_conversation
    /\ pc' = IF raised' = "none" THEN "speak" ELSE "raised"
    /\ UNCHANGED <<harness, building>>

\* Line 311, then the test of line 308 and, when the flag is set, line 312.
RunSpeak ==
    /\ pc = "speak"
    /\ text_to_speech(response[1])
    /\ spoken' = spoken + 1
    /\ pc' = IF raised' # "none" THEN "raised"
             ELSE IF exit_flag' THEN "closed" ELSE "listen"
    /\ UNCHANGED <<lastOp, flagBefore, listened, calls, building>>

Next ==
    \/ CallWakeUp
    \/ CallSleep
    \/ CallThankYou
    \/ CallGetTime
    \/ CallGetWeather
    \/ CallSpeechToText
    \/ CallHandleConversation
    \/ CallTextToSpeech
    \/ CallAdapter
    \/ RunEnter
    \/ RunListen
    \/ RunDispatch
    \/ RunSpeak

Spec == Init /\ [][Next]_vars

-----------------------------------------------------------------------------
(* Vocabulary of the properties *)

\* Lines 270 and 277-278: the running maximum over the first k keys and the
\* key that holds it; a later key replaces an earlier one only on strict >.
\* No call of handle_conversation gets as far as these lines; the operators
\* below say which key a text matches, for the properties that speak of it.
RECURSIVE RunningBest(_, _)
RunningBest(t, k) ==
    IF k = 0 THEN [max_similarity |-> InitialMax, best_match |-> 0]
    ELSE LET prev == RunningBest(t, k - 1) IN
         IF Scores(t)[k] > prev.max_similarity
         THEN [max_similarity |-> Scores(t)[k], best_match |-> k]
         ELSE prev

TopScore(t)  == RunningBest(t, Len(Phrases)).max_similarity
BestPhrase(t) == Phrases[RunningBest(t, Len(Phrases)).best_match]

\* The method each key of the table is written next to (lines 48-52).
ActionOf(phrase) ==
    CASE phrase = Phrases[1] -> "get_weather"
      [] phrase = Phrases[2] -> "get_time"
      [] phrase = Phrases[3] -> "thank_you"
      [] phrase = Phrases[4] -> "sleep"
      [] phrase = Phrases[5] -> "wake_up"

Matches(t)          == t # SENTINEL /\ TopScore(t) > Threshold
SelectsCloseDown(t) == Matches(t) /\ BestPhrase(t) = "Close Down"

\* A step that is one whole call of the method op by the caller.
CallStep(op) == calls' = calls + 1 /\ lastOp' = op
\* A step that is one whole dispatch, by the caller or inside run().
DispatchStep == CallStep("handle_conversation") \/ (pc = "dispatch" /\ pc' # "dispatch")
\* A state in which the last thing that happened is a dispatch.
Dispatched ==
    \/ lastOp = "handle_conversation"
    \/ lastOp = "run" /\ (pc = "speak" \/ (pc = "raised" /\ raisedIn = "handle_conversation"))

-----------------------------------------------------------------------------
(* Properties *)

\* C1.  Run loop ordering and exit: the flag is false whenever the loop is
\* about to listen; listen, dispatch and speak alternate in that order; an
\* iteration whose dispatch selects "Close Down" (score > 0.7) leaves the
\* flag set, and the loop is left only at the end of such an iteration,
\* after its response was spoken, by the normal exit of line 312.
C1_RunLoopExitsOnlyOnCloseDown ==
    lastOp = "run" =>
        /\ pc = "listen"   => (~exit_flag /\ listened = spoken)
        /\ pc = "dispatch" => listened = spoken + 1
        /\ pc = "speak"    => (listened = spoken + 1 /\ (exit_flag <=> SelectsCloseDown(text)))
        /\ pc \in {"closed", "raised"} =>
               (pc = "closed" /\ exit_flag /\ SelectsCloseDown(text) /\ spoken = listened)

\* C2.  A call of sleep sets the termination flag; a call of any other
\* intent action, and a dispatch (the re-prompt path included), leaves a
\* false flag false; and whenever the flag is true, sleep has run since the
\* flag was last reset.
C2_OnlySleepSetsFlag ==
    /\ [](exit_flag => "sleep" \in invoked)
    /\ [][ /\ CallStep("sleep") => exit_flag'
           /\ ( \/ CallStep("get_weather") \/ CallStep("get_time")
                \/ CallStep("thank_you") \/ CallStep("wake_up")
                \/ DispatchStep ) => (~exit_flag => ~exit_flag') ]_vars

C2_Witness ==
    lastOp = "sleep" /\ exit_flag /\ ~flagBefore /\ response # None

\* C3.  A dispatch on the sentinel text returns the re-prompt string, makes
\* no call of the embedding model, of the dialogue engine or of the weather
\* source, runs no intent action and leaves the termination flag as it was.
C3_SentinelReprompts ==
    [][ (DispatchStep /\ text = SENTINEL) =>
            /\ response' = Some(REPROMPT)
            /\ raised' = "none"
            /\ embedCalls' = embedCalls
            /\ engineCalls' = engineCalls
            /\ requests' = requests
            /\ invoked' = invoked
            /\ exit_flag' = exit_flag ]_vars

C3_Witness ==
    /\ lastOp = "run" /\ pc = "speak" /\ text = SENTINEL
    /\ response = Some(REPROMPT) /\ embedCalls = 0

\* C4.  After a dispatch on a text other than the sentinel whose best score
\* exceeds 0.7, the dispatch has returned, the action bound to the best
\* phrase (the first one in table order on a tie) has run, and the dialogue
\* engine was not called.
C4_MatchReturnsActionResult ==
    (Dispatched /\ Matches(text)) =>
        /\ raised = "none"
        /\ response # None
        /\ ActionOf(BestPhrase(text)) \in invoked
        /\ engineCalls = 0

\* C5.  After a dispatch on a text other than the sentinel whose best score
\* is at most 0.7, the dispatch has returned the reply of the dialogue
\* engine, which was called once, and no intent action has run.
C5_NoMatchFallsBackToEngine ==
    (Dispatched /\ text # SENTINEL /\ TopScore(text) <= Threshold) =>
        /\ raised = "none"
        /\ response # None
        /\ engineCalls >= 1
        /\ lastOp = "run" => invoked = {}

\* C6.  WeatherAdapter.get_weather: a 200 answer whose payload has a weather
\* array with a description in its first element yields exactly that
\* description; an answer with any other status yields None, without raising.
C6_AdapterDescriptionOrNone ==
    lastOp = "WeatherAdapter.get_weather" =>
        /\ ( /\ http.connected /\ http.status = 200 /\ http.json /\ http.hasWeather
             /\ Len(http.weather) >= 1 /\ http.weather[1].hasDescription )
           => (raised = "none" /\ response = Some(http.weather[1].description))
        /\ (http.connected /\ http.status # 200)
           => (raised = "none" /\ response = None)

C6_Witness ==
    /\ lastOp = "WeatherAdapter.get_weather"
    /\ requests # << >> /\ requests[Len(requests)] = "Paris"
    /\ http.status = 200 /\ response = Some("light rain")

\* C7.  WeatherAdapter.get_weather never raises: a transport failure, a
\* non-200 answer and a 200 answer with a malformed payload all yield None.
C7_AdapterNeverRaises ==
    lastOp = "WeatherAdapter.get_weather" =>
        /\ raised = "none"
        /\ ( \/ ~http.connected \/ http.status # 200 \/ ~http.json \/ ~http.hasWeather
             \/ Len(http.weather) = 0 \/ ~http.weather[1].hasDescription )
           => response = None

C9_CollaboratorFailuresAbsorbed ==
    lastOp = "run" =>
        raisedIn \notin {"speech_to_text", "text_to_speech", "WeatherAdapter.get_weather"}

\* C10.  Construction completes: the constructor is never left by an
\* exception, the weather source is not contacted and the termination flag
\* is false while and after the table is built.
C10_ConstructionCompletes ==
    pc # "failed" /\ requests = << >> /\ ~exit_flag

=============================================================================
